---------------------------- MODULE Spec2Model ----------------------------
(***************************************************************************)
(* A model of ccan/net/net.c: net_connect, the connection racer that       *)
(* starts one non-blocking connect per address family and returns the      *)
(* first socket to connect (specification Spec), and net_bind with         *)
(* make_listen_fd, which create one listening socket per family            *)
(* (specification SpecBind).  Specification SpecStrmap is the string map   *)
(* of ccan/strmap as ccan/strmap/test/run-prefix.c uses it.                *)
(*                                                                         *)
(* One invocation of a function is modelled as a sequential program; pc    *)
(* is the position in the function.  The operating system is the           *)
(* environment: every system call the function makes (socket, fcntl,       *)
(* connect, poll, getsockopt) chooses its outcome nondeterministically     *)
(* among the outcomes the call can have.  Reads of array slots that were   *)
(* never written, and accesses outside the arrays, are undefined in C and  *)
(* are modelled as a choice over the values or outcomes a build can give.  *)
(***************************************************************************)
EXTENDS Integers, Sequences, FiniteSets, TLC

-----------------------------------------------------------------------------
(* Bounds of the model *)

\* longest candidate list (struct addrinfo chain) given to net_connect
MaxLen == 3

\* unsigned int is modelled modulo 2^UIntBits (TLC integers cannot hold 2^32);
\* any width of two bits or more leaves the wrapped index outside the arrays
UIntBits == 4

UIntModulus == 2 ^ UIntBits

-----------------------------------------------------------------------------
(* Program constants *)

MAX_PROTOS == 2

POLLOUT == 4

\* sizeof(struct sockaddr_in6), sizeof(struct sockaddr_in)
SizeofSockaddrIn6 == 28

SizeofSockaddrIn == 16

\* the first descriptor socket() can return: 0, 1 and 2 are the standard streams
FirstFreeFd == 3

Families == {"AF_INET", "AF_INET6", "AF_OTHER"}

\* errors a connect attempt can end with ("OK": the connection is established)
ConnectErrors == {"ECONNREFUSED", "ENETUNREACH"}

\* descriptors of the process that this call did not create (standard input)
ForeignFds == {0}

\* values an uninitialised or out-of-bounds int can hold: an invalid
\* descriptor, a descriptor of the process, or the number of a socket
GarbageFds == {-1, 0, FirstFreeFd, FirstFreeFd + 1}

-----------------------------------------------------------------------------
VARIABLES
    cands,        \* the addrinfo list: cands[k] is the ai_family of entry k
    socktypes,    \* socktypes[k] is the ai_socktype of entry k
    fate,         \* environment: how a connect to each family's peer ends
    pc,           \* position in net_connect
    ipv4, ipv6,   \* index in cands of the recorded candidate, 0 for NULL
    num, i,       \* unsigned int num, i
    pfd,          \* struct pollfd pfd[MAX_PROTOS]
    addr,         \* const struct addrinfo *addr[MAX_PROTOS] (index in cands)
    slen,         \* socklen_t slen[MAX_PROTOS]
    fdWritten,    \* the slots of pfd whose fd field has been assigned
    sockfd,       \* int sockfd
    errno,        \* the thread's errno
    ret,          \* the value returned, once pc = "done"
    openFds,      \* OS: descriptors created by this call that are open
    nonblock,     \* OS: descriptors that have O_NONBLOCK set
    created,      \* history: <<[fd, cand]>> of the sockets created, in order
    connected,    \* history: sockets whose connect is known to have succeeded
    sockCalls,    \* history: candidates for which socket was called, in order
    connectLog,   \* history: candidates on which connect was called, in order
    pollCalls,    \* history: number of calls of poll
    dropped,      \* history: sockets removed from the arrays by remove_fd
    lastDropErr,  \* history: errno recorded at the latest remove_fd
    winner,       \* history: socket with which got_one was reached by goto
    syncWin,      \* history: TRUE once a connect returned 0
    faults,       \* history: the kinds of system call that have failed
    oob,          \* history: TRUE once an array was indexed outside 0..1
    staleRead,    \* history: TRUE once a slot at or above num was read
    foreignOps,   \* history: foreign descriptors this call operated on
    scanLog,      \* history: sockets visited by the current pass of a loop
    readySet,     \* history: sockets the latest poll reported an event on
    inProgress,   \* history: sockets whose connect returned EINPROGRESS
    fds,          \* net_bind: the caller's int fds[2]
    fdsWritten,   \* net_bind: the slots of fds that have been assigned
    factoryLog,   \* net_bind history: one record per call of make_listen_fd
    members,      \* strmap: the keys of the map, in iteration order
    stride,       \* strmap test input: the order in which the keys are added
    sub,          \* strmap: the keys the latest strmap_prefix result iterates
    subPrefix,    \* strmap: the prefix given to that strmap_prefix
    queried       \* strmap: TRUE while sub is the result of a strmap_prefix

vars == <<cands, socktypes, fate, pc, ipv4, ipv6, num, i, pfd, addr, slen, fdWritten,
          sockfd, errno, ret, openFds, nonblock, created, connected,
          sockCalls, connectLog, pollCalls, dropped, lastDropErr, winner,
          syncWin, faults, oob, staleRead, foreignOps, scanLog, readySet,
          inProgress, fds, fdsWritten, factoryLog, members, stride, sub,
          subPrefix, queried>>

strmapState == <<members, stride, sub, subPrefix, queried>>

\* what net_connect never changes: its input, the environment's choice, and
\* the state of net_bind and of the string map
fixed == <<cands, socktypes, fate, fds, fdsWritten, factoryLog, strmapState>>

locals == <<ipv4, ipv6, num, i, pfd, addr, slen, fdWritten, sockfd>>

history == <<created, connected, sockCalls, connectLog, pollCalls, dropped,
             lastDropErr, winner, syncWin, faults, oob, staleRead,
             foreignOps>>

scanHist == <<scanLog, readySet, inProgress>>

-----------------------------------------------------------------------------
(* Helpers *)

Slots == 0 .. (MAX_PROTOS - 1)

\* all candidate lists of length 0..MaxLen
CandLists == UNION {[1..n -> Families] : n \in 0..MaxLen}

\* unsigned int arithmetic
UInc(x) == (x + 1) % UIntModulus

UDec(x) == (x - 1) % UIntModulus

\* the recorded candidate of a family: the first entry of that family; 0 = NULL
FirstLast(list, fam) ==
    LET hits == {k \in 1..Len(list) : list[k] = fam}
    IN  IF hits = {} THEN 0 ELSE CHOOSE k \in hits : \A m \in hits : m <= k

FirstOf(list, fam) ==
    LET hits == {k \in 1..Len(list) : list[k] = fam}
    IN  IF hits = {} THEN 0 ELSE CHOOSE k \in hits : \A m \in hits : k <= m

\* memmove(a + at, a + at + 1, (n - at - 1) * sizeof(a[0]))
MemMove(a, n, at) ==
    [j \in Slots |-> IF j >= at /\ j < n - 1 THEN a[j + 1] ELSE a[j]]

\* the next descriptor socket() returns: the lowest one not in use
NextFd ==
    CHOOSE f \in FirstFreeFd .. (FirstFreeFd + MAX_PROTOS) :
        /\ f \notin openFds
        /\ \A g \in FirstFreeFd .. (f - 1) : g \in openFds

CreatedFds == {created[k].fd : k \in 1..Len(created)}

CandOfFd(fd) == (CHOOSE k \in 1..Len(created) : created[k].fd = fd)

FamilyOfFd(fd) == cands[created[CandOfFd(fd)].cand]

IsOpen(fd) == fd \in openFds \cup ForeignFds

\* the values a read of pfd[idx].fd can give
ReadFd(idx) ==
    IF idx \in Slots /\ idx \in fdWritten THEN {pfd[idx].fd} ELSE GarbageFds

\* out: the descriptors closed by the final loop
OutCloseNone(p, n, s) == {}

OutCloseSet(p, n, s) == {p[j].fd : j \in {k \in Slots : k < n}} \ {s}

\* got_one: the value of sockfd after set_nonblock(pfd[i].fd, false)
SockfdKeepNonblock(ok, fd, old) == fd

SockfdAfterRestore(ok, fd, old) == IF ok THEN fd ELSE old

\* remove_fd, line 63: (*num)--
NumKept(n) == n

NumAfterRemove(n) == n - 1

\* line 123: the slot at which the scan of the reported events starts
EventScanStartLast == MAX_PROTOS - 1

EventScanStart == 0

\* where a connect that returns 0 continues
PcAfterInstantWait == "poll"

PcAfterInstant == "got_one"

-----------------------------------------------------------------------------
\* the state of net_bind before it runs
BindIdle ==
    /\ fds = [j \in Slots |-> -1]
    /\ fdsWritten = {}
    /\ factoryLog = <<>>

\* the string map before the test runs
StrmapIdle ==
    /\ members = <<>>
    /\ stride = 1
    /\ sub = <<>>
    /\ subPrefix = <<>>
    /\ queried = FALSE

Init ==
    /\ cands \in CandLists
    /\ socktypes = [k \in 1..Len(cands) |-> "SOCK_STREAM"]
    /\ BindIdle
    /\ StrmapIdle
    /\ fate \in [{"AF_INET", "AF_INET6"} -> {"OK"} \cup ConnectErrors]
    /\ pc = "scan"
    /\ ipv4 = 0 /\ ipv6 = 0
    /\ num = 0 /\ i = 0
    /\ pfd = [j \in Slots |-> [fd |-> -1, events |-> 0, revents |-> 0]]
    /\ addr = [j \in Slots |-> 0]
    /\ slen = [j \in Slots |-> 0]
    /\ fdWritten = {}
    /\ sockfd = -1
    /\ errno = "EPRIOR"
    /\ ret = -1
    /\ openFds = {}
    /\ nonblock = {}
    /\ created = <<>>
    /\ connected = {}
    /\ sockCalls = <<>>
    /\ connectLog = <<>>
    /\ pollCalls = 0
    /\ dropped = {}
    /\ lastDropErr = "NONE"
    /\ winner = -1
    /\ syncWin = FALSE
    /\ faults = {}
    /\ oob = FALSE
    /\ staleRead = FALSE
    /\ foreignOps = {}
    /\ scanLog = <<>>
    /\ readySet = {}
    /\ inProgress = {}

-----------------------------------------------------------------------------
(* net_connect, lines 75-86: record the first candidate of each family *)
Scan ==
    /\ pc = "scan"
    /\ ipv4' = FirstOf(cands, "AF_INET")
    /\ ipv6' = FirstOf(cands, "AF_INET6")
    /\ pc' = "sock6"
    /\ UNCHANGED <<fixed, num, i, pfd, addr, slen, fdWritten, sockfd,
                   errno, ret, openFds, nonblock, history,
                   scanHist>>

\* lines 90-97 (IPv6) and 98-105 (IPv4):
\* addr[num] = cand; slen[num] = len; pfd[num].fd = socket(..); if ok num++
CreateSocket(cand, len, ok) ==
    /\ addr' = [addr EXCEPT ![num] = cand]
    /\ slen' = [slen EXCEPT ![num] = len]
    /\ fdWritten' = fdWritten \cup {num}
    /\ sockCalls' = Append(sockCalls, cand)
    /\ IF ok
       THEN /\ pfd' = [pfd EXCEPT ![num].fd = NextFd]
            /\ num' = num + 1
            /\ openFds' = openFds \cup {NextFd}
            /\ created' = Append(created, [fd |-> NextFd, cand |-> cand])
            /\ UNCHANGED <<errno, faults>>
       ELSE /\ pfd' = [pfd EXCEPT ![num].fd = -1]
            /\ errno' = "EMFILE"
            /\ faults' = faults \cup {"socket"}
            /\ UNCHANGED <<num, openFds, created>>

SocketV6 ==
    /\ pc = "sock6"
    /\ ipv6 # 0
    /\ \E ok \in BOOLEAN : CreateSocket(ipv6, SizeofSockaddrIn6, ok)
    /\ pc' = "sock4"
    /\ UNCHANGED <<fixed, ipv4, ipv6, i, sockfd, ret, nonblock,
                   connected, connectLog, pollCalls, dropped, lastDropErr,
                   winner, syncWin, oob, staleRead, foreignOps,
                   scanHist>>

SkipV6 ==
    /\ pc = "sock6"
    /\ ipv6 = 0
    /\ pc' = "sock4"
    /\ UNCHANGED <<fixed, locals, errno, ret, openFds, nonblock, history,
                   scanHist>>

\* after the second socket the connect loop starts with i = 0
SocketV4 ==
    /\ pc = "sock4"
    /\ ipv4 # 0
    /\ \E ok \in BOOLEAN : CreateSocket(ipv4, SizeofSockaddrIn, ok)
    /\ pc' = "connect"
    /\ i' = 0
    /\ UNCHANGED <<fixed, ipv4, ipv6, sockfd, ret, nonblock,
                   connected, connectLog, pollCalls, dropped, lastDropErr,
                   winner, syncWin, oob, staleRead, foreignOps,
                   scanHist>>

SkipV4 ==
    /\ pc = "sock4"
    /\ ipv4 = 0
    /\ pc' = "connect"
    /\ i' = 0
    /\ UNCHANGED <<fixed, ipv4, ipv6, num, pfd, addr, slen, fdWritten,
                   sockfd, errno, ret, openFds, nonblock, history,
                   scanHist>>

-----------------------------------------------------------------------------
(* remove_fd, lines 54-64: the three arrays shifted down over slot at *)
\* (evs: the slots whose events field the caller then sets to POLLOUT)
RemoveFd(at, evs) ==
    /\ pfd' = [j \in Slots |->
                 IF j \in evs
                 THEN [MemMove(pfd, num, at)[j] EXCEPT !.events = POLLOUT]
                 ELSE MemMove(pfd, num, at)[j]]
    /\ addr' = MemMove(addr, num, at)
    /\ slen' = MemMove(slen, num, at)
    /\ num' = NumAfterRemove(num)

\* history: the loop body runs for the entry in slot i
Visit == scanLog' = Append(scanLog, pfd[i].fd)

\* history kept when the socket in slot at is dropped with errno e
NoteDrop(at, e) ==
    /\ dropped' = dropped \cup {pfd[at].fd}
    /\ lastDropErr' = e

(* The connect loop, lines 107-120: one iteration per step *)

\* line 108: set_nonblock(pfd[i].fd, true) fails; remove_fd(.., i--); continue
ConnectNonblockFail ==
    /\ pc = "connect"
    /\ i < num
    /\ errno' = "EINVAL"
    /\ RemoveFd(i, {})
    /\ i' = UInc(UDec(i))
    /\ NoteDrop(i, "EINVAL")
    /\ faults' = faults \cup {"nonblock"}
    /\ Visit
    /\ UNCHANGED <<fixed, pc, ipv4, ipv6, fdWritten, sockfd, ret,
                   openFds, nonblock, created, connected, sockCalls,
                   connectLog, pollCalls, winner, syncWin, oob, staleRead,
                   foreignOps,
                   readySet, inProgress>>

\* line 113: connect returns 0; goto got_one
ConnectInstant ==
    /\ pc = "connect"
    /\ i < num
    /\ fate[FamilyOfFd(pfd[i].fd)] = "OK"
    /\ nonblock' = nonblock \cup {pfd[i].fd}
    /\ connectLog' = Append(connectLog, addr[i])
    /\ connected' = connected \cup {pfd[i].fd}
    /\ winner' = pfd[i].fd
    /\ syncWin' = TRUE
    /\ pc' = PcAfterInstant
    /\ Visit
    /\ UNCHANGED <<fixed, locals, errno, ret, openFds, created,
                   sockCalls, pollCalls, dropped, lastDropErr, faults, oob,
                   staleRead, foreignOps,
                   readySet, inProgress>>

\* lines 113-119: connect returns -1 with EINPROGRESS; pfd[i].events = POLLOUT
ConnectInProgress ==
    /\ pc = "connect"
    /\ i < num
    /\ nonblock' = nonblock \cup {pfd[i].fd}
    /\ connectLog' = Append(connectLog, addr[i])
    /\ errno' = "EINPROGRESS"
    /\ pfd' = [pfd EXCEPT ![i].events = POLLOUT]
    /\ i' = UInc(i)
    /\ Visit
    /\ inProgress' = inProgress \cup {pfd[i].fd}
    /\ UNCHANGED <<fixed, pc, ipv4, ipv6, num, addr, slen, fdWritten,
                   sockfd, ret, openFds, created, connected, sockCalls,
                   pollCalls, dropped, lastDropErr, winner, syncWin, faults,
                   oob, staleRead, foreignOps,
                   readySet>>

\* lines 113-119: connect fails at once at i >= 1; remove_fd(.., i--), and
\* the store pfd[i].events = POLLOUT that follows lands in slot i - 1
ConnectFail ==
    /\ pc = "connect"
    /\ i < num
    /\ UDec(i) \in Slots
    /\ fate[FamilyOfFd(pfd[i].fd)] # "OK"
    /\ nonblock' = nonblock \cup {pfd[i].fd}
    /\ connectLog' = Append(connectLog, addr[i])
    /\ errno' = fate[FamilyOfFd(pfd[i].fd)]
    /\ RemoveFd(i, {UDec(i)})
    /\ i' = UInc(UDec(i))
    /\ NoteDrop(i, errno')
    /\ Visit
    /\ UNCHANGED <<fixed, pc, ipv4, ipv6, fdWritten, sockfd, ret,
                   openFds, created, connected, sockCalls, pollCalls, winner,
                   syncWin, faults, oob, staleRead, foreignOps,
                   readySet, inProgress>>

\* lines 113-119: connect fails at once at i = 0; remove_fd(.., i--) wraps i
\* to UINT_MAX and the store pfd[i].events = POLLOUT is outside the array:
\* the process is killed, or the store lands in memory the function does not
\* use and the loop goes on
ConnectFailOob ==
    /\ pc = "connect"
    /\ i < num
    /\ UDec(i) \notin Slots
    /\ fate[FamilyOfFd(pfd[i].fd)] # "OK"
    /\ nonblock' = nonblock \cup {pfd[i].fd}
    /\ connectLog' = Append(connectLog, addr[i])
    /\ errno' = fate[FamilyOfFd(pfd[i].fd)]
    /\ RemoveFd(i, {})
    /\ NoteDrop(i, errno')
    /\ oob' = TRUE
    /\ \/ pc' = "crashed" /\ i' = UDec(i)
       \/ pc' = pc /\ i' = UInc(UDec(i))
    /\ Visit
    /\ UNCHANGED <<fixed, ipv4, ipv6, fdWritten, sockfd, ret, openFds,
                   created, connected, sockCalls, pollCalls, winner, syncWin,
                   faults, staleRead, foreignOps,
                   readySet, inProgress>>

\* line 107: i < num is false
ConnectLoopExit ==
    /\ pc = "connect"
    /\ i >= num
    /\ pc' = "poll"
    /\ UNCHANGED <<fixed, locals, errno, ret, openFds, nonblock, history,
                   scanHist>>

-----------------------------------------------------------------------------
(* The wait loop, lines 122-138 *)

\* line 122: num is 0, the loop is not entered and control falls into got_one
PollNone ==
    /\ pc = "poll"
    /\ num = 0
    /\ pc' = "got_one"
    /\ UNCHANGED <<fixed, locals, errno, ret, openFds, nonblock, history,
                   scanHist>>

\* line 122: poll returns -1; the loop ends and control falls into got_one
PollFail ==
    /\ pc = "poll"
    /\ num # 0
    /\ pollCalls' = pollCalls + 1
    /\ errno' = "EINTR"
    /\ faults' = faults \cup {"poll"}
    /\ pc' = "got_one"
    /\ UNCHANGED <<fixed, locals, ret, openFds, nonblock, created,
                   connected, sockCalls, connectLog, dropped, lastDropErr,
                   winner, syncWin, oob, staleRead, foreignOps,
                   scanHist>>

\* lines 122-123: poll reports events on a non-empty set of the num sockets
PollReady ==
    /\ pc = "poll"
    /\ num # 0
    /\ pollCalls' = pollCalls + 1
    /\ \E ready \in (SUBSET {k \in Slots : k < num}) \ {{}} :
          /\ pfd' = [j \in Slots |->
                        IF j < num
                        THEN [pfd[j] EXCEPT
                                !.revents = IF j \in ready THEN POLLOUT ELSE 0]
                        ELSE pfd[j]]
          /\ readySet' = {pfd[j].fd : j \in ready}
    /\ scanLog' = <<>>
    /\ i' = EventScanStart
    /\ pc' = "events"
    /\ UNCHANGED <<fixed, ipv4, ipv6, num, addr, slen, fdWritten,
                   sockfd, errno, ret, openFds, nonblock, created, connected,
                   sockCalls, connectLog, dropped, lastDropErr, winner,
                   syncWin, faults, oob, staleRead, foreignOps,
                   inProgress>>

\* lines 126-127: no event on pfd[i]
EventSkip ==
    /\ pc = "events"
    /\ i < num
    /\ pfd[i].revents = 0
    /\ i' = UInc(i)
    /\ Visit
    /\ UNCHANGED <<fixed, pc, ipv4, ipv6, num, pfd, addr, slen,
                   fdWritten, sockfd, errno, ret, openFds, nonblock, history,
                   readySet, inProgress>>

\* lines 128-130: getsockopt fails; goto out
EventSockoptFail ==
    /\ pc = "events"
    /\ i < num
    /\ pfd[i].revents # 0
    /\ errno' = "ENOBUFS"
    /\ faults' = faults \cup {"getsockopt"}
    /\ pc' = "out"
    /\ Visit
    /\ UNCHANGED <<fixed, locals, ret, openFds, nonblock, created,
                   connected, sockCalls, connectLog, pollCalls, dropped,
                   lastDropErr, winner, syncWin, oob, staleRead, foreignOps,
                   readySet, inProgress>>

\* lines 131-132: the pending error is 0; goto got_one
EventWinner ==
    /\ pc = "events"
    /\ i < num
    /\ pfd[i].revents # 0
    /\ fate[FamilyOfFd(pfd[i].fd)] = "OK"
    /\ connected' = connected \cup {pfd[i].fd}
    /\ winner' = pfd[i].fd
    /\ pc' = "got_one"
    /\ Visit
    /\ UNCHANGED <<fixed, locals, errno, ret, openFds, nonblock,
                   created, sockCalls, connectLog, pollCalls, dropped,
                   lastDropErr, syncWin, faults, oob, staleRead, foreignOps,
                   readySet, inProgress>>

\* lines 134-136: the pending error is not 0; errno = err; remove_fd(.., i--)
EventDead ==
    /\ pc = "events"
    /\ i < num
    /\ pfd[i].revents # 0
    /\ fate[FamilyOfFd(pfd[i].fd)] # "OK"
    /\ errno' = fate[FamilyOfFd(pfd[i].fd)]
    /\ RemoveFd(i, {})
    /\ i' = UInc(UDec(i))
    /\ NoteDrop(i, errno')
    /\ Visit
    /\ UNCHANGED <<fixed, pc, ipv4, ipv6, fdWritten, sockfd, ret,
                   openFds, nonblock, created, connected, sockCalls,
                   connectLog, pollCalls, winner, syncWin, faults, oob,
                   staleRead, foreignOps,
                   readySet, inProgress>>

\* line 123: i < num is false; back to the loop condition of line 122
EventLoopExit ==
    /\ pc = "events"
    /\ i >= num
    /\ pc' = "poll"
    /\ UNCHANGED <<fixed, locals, errno, ret, openFds, nonblock, history,
                   scanHist>>

-----------------------------------------------------------------------------
(* got_one, lines 140-143: set_nonblock(pfd[i].fd, false), then sockfd.    *)
(* i can equal num here (the wait loop ended without a goto): the slot     *)
(* read is then a removed entry, one never written, or pfd[2].             *)

\* history of the read of pfd[i].fd with the value fd
NoteRead(fd) ==
    /\ oob' = (oob \/ i \notin Slots)
    /\ staleRead' = (staleRead \/ i >= num)
    /\ foreignOps' = foreignOps \cup ({fd} \cap ForeignFds)

\* line 142: both fcntl calls succeed; line 143: sockfd = pfd[i].fd
GotOneRestored ==
    /\ pc = "got_one"
    /\ \E fd \in ReadFd(i) :
          /\ IsOpen(fd)
          /\ nonblock' = nonblock \ {fd}
          /\ sockfd' = SockfdAfterRestore(TRUE, fd, sockfd)
          /\ NoteRead(fd)
    /\ pc' = "out"
    /\ UNCHANGED <<fixed, ipv4, ipv6, num, i, pfd, addr, slen,
                   fdWritten, errno, ret, openFds, created, connected,
                   sockCalls, connectLog, pollCalls, dropped, lastDropErr,
                   winner, syncWin, faults,
                   scanHist>>

\* line 142: fcntl fails (EBADF when the value read is no open descriptor)
GotOneRestoreFailed ==
    /\ pc = "got_one"
    /\ \E fd \in ReadFd(i) :
          /\ sockfd' = SockfdAfterRestore(FALSE, fd, sockfd)
          /\ errno' = IF IsOpen(fd) THEN "EINVAL" ELSE "EBADF"
          /\ NoteRead(fd)
    /\ faults' = faults \cup {"restore"}
    /\ pc' = "out"
    /\ UNCHANGED <<fixed, ipv4, ipv6, num, i, pfd, addr, slen,
                   fdWritten, ret, openFds, nonblock, created, connected,
                   sockCalls, connectLog, pollCalls, dropped, lastDropErr,
                   winner, syncWin,
                   scanHist>>

(* out, lines 145-151: close every listed descriptor but sockfd, return it *)
Out ==
    /\ pc = "out"
    /\ openFds' = openFds \ OutCloseSet(pfd, num, sockfd)
    /\ ret' = sockfd
    /\ pc' = "done"
    /\ UNCHANGED <<fixed, locals, errno, nonblock, history,
                   scanHist>>

-----------------------------------------------------------------------------
Next ==
    \/ Scan
    \/ SocketV6
    \/ SkipV6
    \/ SocketV4
    \/ SkipV4
    \/ ConnectNonblockFail
    \/ ConnectInstant
    \/ ConnectInProgress
    \/ ConnectFail
    \/ ConnectFailOob
    \/ ConnectLoopExit
    \/ PollNone
    \/ PollFail
    \/ PollReady
    \/ EventSkip
    \/ EventSockoptFail
    \/ EventWinner
    \/ EventDead
    \/ EventLoopExit
    \/ GotOneRestored
    \/ GotOneRestoreFailed
    \/ Out

Spec == Init /\ [][Next]_vars

-----------------------------------------------------------------------------
(* net_bind and make_listen_fd, lines 172-241 *)

SockTypes == {"SOCK_STREAM", "SOCK_DGRAM", "SOCK_SEQPACKET"}

\* the lists net_bind can be given: it reads addrinfo->ai_family at once, so
\* the list has an entry
BindLists == UNION {[1..n -> Families] : n \in 1..MaxLen}

\* what net_bind never changes: the state of net_connect and the string map
connectState == <<fate, i, pfd, addr, slen, fdWritten, sockfd, nonblock,
                  created, connected, sockCalls, connectLog, pollCalls,
                  dropped, lastDropErr, winner, syncWin, faults, oob,
                  staleRead, foreignOps, scanLog, readySet, inProgress,
                  strmapState>>

\* should_listen, lines 172-179
ShouldListenStreamOnly(type) == type = "SOCK_STREAM"

ShouldListen(type) == type = "SOCK_SEQPACKET" \/ type = "SOCK_STREAM"

\* lines 211-221: the entry recorded for a family; the second entry of the
\* list replaces the first when both have the family; 0 = NULL
BindSlotFirst(list, fam) ==
    IF list[1] = fam THEN 1
    ELSE IF Len(list) >= 2 /\ list[2] = fam THEN 2 ELSE 0

BindSlot(list, fam) ==
    IF Len(list) >= 2 /\ list[2] = fam THEN 2
    ELSE IF list[1] = fam THEN 1 ELSE 0

\* fail, lines 199-201: errno after saved_errno = errno; close(fd);
\* errno = saved_errno, when close leaves closeErr in errno
ErrnoClobbered(saved, closeErr) == closeErr

ErrnoAfterClose(saved, closeErr) == saved

\* lines 237-240: the value net_bind returns for a count of n descriptors
BindReturnBoth(n) == IF n < MAX_PROTOS THEN -1 ELSE n

BindReturnValue(n) == IF n = 0 THEN -1 ELSE n

\* lines 226-227 and 232-233: num after fds[num] = r
NumAlwaysAdvanced(n, r) == n + 1

NumAfterFactory(n, r) == IF r >= 0 THEN n + 1 ELSE n

\* the outcomes the system calls of one make_listen_fd can have
FactoryOutcomes ==
    [sock : BOOLEAN, reuse : BOOLEAN, bind : BOOLEAN, listen : BOOLEAN,
     closeErr : {"EIO", "EINTR"}]

\* make_listen_fd, lines 181-203, for entry cand under the outcomes o:
\* what it did and what it returns (ret) with which errno (err)
MakeListenFd(cand, o) ==
    LET base == [cand |-> cand, sock |-> NextFd, reuseOk |-> o.reuse,
                 bound |-> FALSE, listenCalled |-> FALSE,
                 listening |-> FALSE, failed |-> "none", ret |-> -1,
                 err |-> errno, open |-> FALSE]
        wantListen == ShouldListen(socktypes[cand])
    IN  IF ~o.sock
        THEN [base EXCEPT !.sock = -1, !.reuseOk = FALSE,
                          !.failed = "socket", !.err = "EMFILE"]
        ELSE IF ~o.bind
        THEN [base EXCEPT !.failed = "bind",
                          !.err = ErrnoAfterClose("EADDRINUSE", o.closeErr)]
        ELSE IF wantListen /\ ~o.listen
        THEN [base EXCEPT !.bound = TRUE, !.listenCalled = TRUE,
                          !.failed = "listen",
                          !.err = ErrnoAfterClose("EOPNOTSUPP", o.closeErr)]
        ELSE [base EXCEPT !.bound = TRUE, !.listenCalled = wantListen,
                          !.listening = wantListen, !.ret = NextFd,
                          !.err = IF o.reuse THEN errno ELSE "ENOPROTOOPT",
                          !.open = TRUE]

InitBind ==
    /\ cands \in BindLists
    /\ socktypes \in [1..Len(cands) -> SockTypes]
    /\ fate = [f \in {"AF_INET", "AF_INET6"} |-> "OK"]
    /\ pc = "bind_classify"
    /\ ipv4 = 0 /\ ipv6 = 0
    /\ num = 0 /\ i = 0
    /\ pfd = [j \in Slots |-> [fd |-> -1, events |-> 0, revents |-> 0]]
    /\ addr = [j \in Slots |-> 0]
    /\ slen = [j \in Slots |-> 0]
    /\ fdWritten = {}
    /\ sockfd = -1
    /\ errno = "EPRIOR"
    /\ ret = -1
    /\ openFds = {}
    /\ nonblock = {}
    /\ created = <<>>
    /\ connected = {}
    /\ sockCalls = <<>>
    /\ connectLog = <<>>
    /\ pollCalls = 0
    /\ dropped = {}
    /\ lastDropErr = "NONE"
    /\ winner = -1
    /\ syncWin = FALSE
    /\ faults = {}
    /\ oob = FALSE
    /\ staleRead = FALSE
    /\ foreignOps = {}
    /\ scanLog = <<>>
    /\ readySet = {}
    /\ inProgress = {}
    /\ BindIdle
    /\ StrmapIdle

\* net_bind, lines 211-223
BindClassify ==
    /\ pc = "bind_classify"
    /\ ipv4' = BindSlot(cands, "AF_INET")
    /\ ipv6' = BindSlot(cands, "AF_INET6")
    /\ num' = 0
    /\ pc' = "bind6"
    /\ UNCHANGED <<cands, socktypes, connectState, errno, ret, openFds, fds,
                   fdsWritten, factoryLog>>

\* fds[num] = make_listen_fd(cand); num++ when it is >= 0
CallFactory(cand) ==
    \E o \in FactoryOutcomes :
        LET r == MakeListenFd(cand, o)
        IN  /\ fds' = [fds EXCEPT ![num] = r.ret]
            /\ fdsWritten' = fdsWritten \cup {num}
            /\ num' = NumAfterFactory(num, r.ret)
            /\ errno' = r.err
            /\ openFds' = IF r.open THEN openFds \cup {r.sock} ELSE openFds
            /\ factoryLog' = Append(factoryLog, r)

\* lines 225-230: the IPv6 candidate; ipv6 = NULL when the factory fails
BindV6 ==
    /\ pc = "bind6"
    /\ ipv6 # 0
    /\ CallFactory(ipv6)
    /\ ipv6' = IF num' > num THEN ipv6 ELSE 0
    /\ pc' = "bind4"
    /\ UNCHANGED <<cands, socktypes, connectState, ipv4, ret>>

BindSkipV6 ==
    /\ pc = "bind6"
    /\ ipv6 = 0
    /\ pc' = "bind4"
    /\ UNCHANGED <<cands, socktypes, connectState, ipv4, ipv6, num, errno,
                   ret, openFds, fds, fdsWritten, factoryLog>>

\* lines 231-236: the IPv4 candidate
BindV4 ==
    /\ pc = "bind4"
    /\ ipv4 # 0
    /\ CallFactory(ipv4)
    /\ ipv4' = IF num' > num THEN ipv4 ELSE 0
    /\ pc' = "bind_return"
    /\ UNCHANGED <<cands, socktypes, connectState, ipv6, ret>>

BindSkipV4 ==
    /\ pc = "bind4"
    /\ ipv4 = 0
    /\ pc' = "bind_return"
    /\ UNCHANGED <<cands, socktypes, connectState, ipv4, ipv6, num, errno,
                   ret, openFds, fds, fdsWritten, factoryLog>>

\* lines 237-240
BindReturn ==
    /\ pc = "bind_return"
    /\ ret' = BindReturnValue(num)
    /\ pc' = "bind_done"
    /\ UNCHANGED <<cands, socktypes, connectState, ipv4, ipv6, num, errno,
                   openFds, fds, fdsWritten, factoryLog>>

NextBind ==
    \/ BindClassify
    \/ BindV6
    \/ BindSkipV6
    \/ BindV4
    \/ BindSkipV4
    \/ BindReturn

SpecBind == InitBind /\ [][NextBind]_vars

-----------------------------------------------------------------------------
(* Vocabulary of the properties *)

Returned == pc = "done"

\* entry k of the list is the first entry of its family, IPv4 or IPv6
IsFirstOfFamily(k) ==
    /\ cands[k] \in {"AF_INET", "AF_INET6"}
    /\ \A m \in 1..(k - 1) : cands[m] # cands[k]

HasFamily(fam) == \E k \in 1..Len(cands) : cands[k] = fam

CountFamily(fam) == Cardinality({k \in 1..Len(cands) : cands[k] = fam})

\* the sockets of the entries still in the arrays (the pending candidates)
PendingFds == {pfd[j].fd : j \in {k \in Slots : k < num}}

\* the socket created for a family, -1 when there is none
SocketOfFamily(fam) ==
    IF \E fd \in CreatedFds : FamilyOfFd(fd) = fam
    THEN CHOOSE fd \in CreatedFds : FamilyOfFd(fd) = fam
    ELSE -1

\* every attempted candidate was dropped because its connect failed, at once
\* or as a pending error, and nothing else went wrong
AllConnectsFailed ==
    /\ created # <<>>
    /\ dropped = CreatedFds
    /\ faults \subseteq {"restore"}

-----------------------------------------------------------------------------
(* C1: whenever net_connect returns a non-negative descriptor, it is a     *)
(* socket this call created, whose connect succeeded (connect returned 0,  *)
(* or an event was followed by a pending error of 0), and it is in         *)
(* blocking mode.                                                          *)
C1_ReturnedIsConnectedSocket ==
    (Returned /\ ret >= 0) =>
        /\ ret \in CreatedFds
        /\ ret \in connected
        /\ ret \notin nonblock

(* C2: if every attempted candidate is dropped because its connect failed, *)
(* net_connect returns -1 and the caller sees the error recorded for the   *)
(* last dropped candidate.                                                 *)
C2_AllDroppedReturnsLastError ==
    (Returned /\ AllConnectsFailed) =>
        /\ ret = -1
        /\ errno = lastDropErr

(* C3: when net_connect returns, every socket it created other than the   *)
(* returned winner is closed; after a failed call none is open.            *)
C3_NoSocketLeftOpen ==
    Returned => openFds \subseteq {ret}

C5_FailingV6NeverBeatsV4 ==
    (/\ CountFamily("AF_INET") = 1 /\ CountFamily("AF_INET6") = 1
     /\ fate["AF_INET"] = "OK" /\ fate["AF_INET6"] # "OK"
     /\ faults = {}) =>
        /\ pc # "crashed"
        /\ Returned =>
              /\ ret = SocketOfFamily("AF_INET")
              /\ ret \notin nonblock

(* C6, as stated: once a connect has returned 0, poll is never called, no  *)
(* connect is started on a later candidate, and net_connect returns that   *)
(* candidate's socket.                                                     *)
C6_InstantConnectReturnsSocket ==
    syncWin =>
        /\ pollCalls = 0
        /\ connectLog[Len(connectLog)] = created[CandOfFd(winner)].cand
        /\ Returned => ret = winner

(* C6, amended: once a connect has returned 0, poll is never called and no *)
(* connect is started on a later candidate; net_connect returns that       *)
(* candidate's socket, unless restoring blocking mode fails, and then it   *)
(* returns -1 with that socket closed.                                     *)
C6_InstantConnectNoWait ==
    syncWin =>
        /\ pollCalls = 0
        /\ connectLog[Len(connectLog)] = created[CandOfFd(winner)].cand
        /\ Returned =>
              IF "restore" \in faults
              THEN ret = -1 /\ winner \notin openFds
              ELSE ret = winner

\* the first of two sockets connected at once: the second was never tried
C6_Witness ==
    /\ Returned
    /\ syncWin
    /\ Len(created) = MAX_PROTOS
    /\ Len(connectLog) = 1
    /\ ret = winner

(* C7: given a list with no IPv4 and no IPv6 entry, net_connect returns -1 *)
(* without creating a socket and without operating on any descriptor it    *)
(* did not create.                                                         *)
C7_NoCandidateFailsCleanly ==
    (Returned /\ ~HasFamily("AF_INET") /\ ~HasFamily("AF_INET6")) =>
        /\ ret = -1
        /\ created = <<>>
        /\ foreignOps = {}

(* C8: if a winner is found but switching it back to blocking mode fails,  *)
(* net_connect returns -1 and the winner and every other pending socket    *)
(* are closed; no non-blocking descriptor is ever returned.                *)
C8_RestoreFailureIsFailure ==
    /\ (Returned /\ winner # -1 /\ "restore" \in faults) =>
          /\ ret = -1
          /\ winner \notin openFds
          /\ PendingFds \cap openFds = {}
    /\ (Returned /\ ret >= 0) => ret \notin nonblock

\* a winner found among two pending sockets, and the restore failed
C8_Witness ==
    /\ Returned
    /\ winner # -1
    /\ "restore" \in faults
    /\ num = MAX_PROTOS
    /\ winner \in nonblock

(* C9: if poll itself fails while one or two candidates are pending,       *)
(* net_connect returns -1 with all pending descriptors closed; it never    *)
(* returns a descriptor.                                                   *)
C9_PollFailureAborts ==
    (Returned /\ "poll" \in faults) =>
        /\ ret = -1
        /\ PendingFds \cap openFds = {}

(* C10: net_connect creates at most two sockets, at most one per family,   *)
(* and the candidates it attempts are exactly the first IPv4 entry and the *)
(* first IPv6 entry of the list; other families and later entries of a     *)
(* family are never attempted.                                             *)
C10_OnlyFirstOfEachFamily ==
    /\ Len(created) <= MAX_PROTOS
    /\ \A a, b \in 1..Len(created) :
          a # b => cands[created[a].cand] # cands[created[b].cand]
    /\ \A k \in 1..Len(sockCalls) : IsFirstOfFamily(sockCalls[k])
    /\ \A k \in 1..Len(created) : IsFirstOfFamily(created[k].cand)
    /\ \A k \in 1..Len(connectLog) : IsFirstOfFamily(connectLog[k])
    /\ pc \notin {"scan", "sock6", "sock4"} =>
          {sockCalls[k] : k \in 1..Len(sockCalls)}
             = {k \in 1..Len(cands) : IsFirstOfFamily(k)}

\* both families tried in a list that also holds entries never attempted
C10_Witness ==
    /\ Returned
    /\ Len(created) = MAX_PROTOS
    /\ Len(connectLog) = MAX_PROTOS
    /\ \E k \in 1..Len(cands) : ~IsFirstOfFamily(k)

-----------------------------------------------------------------------------
(* The string map of ccan/strmap/test/run-prefix.c.  A key is the sequence *)
(* of its characters (ASCII codes).  The map is kept as the sequence of    *)
(* its keys in the order strmap_iterate visits them.                       *)

\* #define NUM 200
NUM == 200

\* sprintf(template, "%08u", i): eight decimal digits, '0' is 48
KeyWidth == 8

Digit0 == 48

\* the character a of strmap_prefix(&map, "a")
CharA == 97

\* sprintf(template, "%08u", n)
Format8(n) ==
    [k \in 1..KeyWidth |-> Digit0 + ((n \div (10 ^ (KeyWidth - k))) % 10)]

\* strcmp(a, b) < 0 on unsigned characters
RECURSIVE Less(_, _)
Less(a, b) ==
    IF b = <<>> THEN FALSE
    ELSE IF a = <<>> THEN TRUE
    ELSE IF Head(a) # Head(b) THEN Head(a) < Head(b)
    ELSE Less(Tail(a), Tail(b))

\* strmap_add: the key takes its place in the order of the keys
InsertAtEnd(seq, key) == Append(seq, key)

InsertSorted(seq, key) ==
    LET before == SelectSeq(seq, LAMBDA m : Less(m, key))
        after == SelectSeq(seq, LAMBDA m : Less(key, m))
    IN  before \o <<key>> \o after

\* strmap_prefix: the members whose key starts with prefix, in order
PrefixOf(seq, prefix) ==
    SelectSeq(seq, LAMBDA m :
        /\ Len(m) >= Len(prefix)
        /\ SubSeq(m, 1, Len(prefix)) = prefix)

\* the prefixes the test asks for, and two that end in the middle of the keys
TestPrefixes ==
    {<<CharA>>, <<>>, <<Digit0>>, Format8(0), SubSeq(Format8(0), 1, 7),
     SubSeq(Format8(0), 1, 6), Format8(NUM - 1), SubSeq(Format8(NUM - 1), 1, 7)}

\* the orders in which the test's keys are added: k-th key is k * stride mod NUM
\* (1: the test's order; NUM - 1: descending; 3: interleaved)
Strides == {1, 3, NUM - 1}

\* the number of test keys added so far
Added == Cardinality({k \in 1..Len(members) : members[k] # <<>>})

ConnectIdle ==
    /\ cands = <<>>
    /\ socktypes = <<>>
    /\ fate = [f \in {"AF_INET", "AF_INET6"} |-> "OK"]
    /\ ipv4 = 0 /\ ipv6 = 0
    /\ num = 0 /\ i = 0
    /\ pfd = [j \in Slots |-> [fd |-> -1, events |-> 0, revents |-> 0]]
    /\ addr = [j \in Slots |-> 0]
    /\ slen = [j \in Slots |-> 0]
    /\ fdWritten = {}
    /\ sockfd = -1
    /\ errno = "EPRIOR"
    /\ ret = -1
    /\ openFds = {}
    /\ nonblock = {}
    /\ created = <<>>
    /\ connected = {}
    /\ sockCalls = <<>>
    /\ connectLog = <<>>
    /\ pollCalls = 0
    /\ dropped = {}
    /\ lastDropErr = "NONE"
    /\ winner = -1
    /\ syncWin = FALSE
    /\ faults = {}
    /\ oob = FALSE
    /\ staleRead = FALSE
    /\ foreignOps = {}
    /\ scanLog = <<>>
    /\ readySet = {}
    /\ inProgress = {}

netState == <<cands, socktypes, fate, pc, ipv4, ipv6, num, i, pfd, addr, slen,
              fdWritten, sockfd, errno, ret, openFds, nonblock, history,
              scanHist, fds, fdsWritten, factoryLog>>

\* line 36: strmap_init(&map)
InitStrmap ==
    /\ ConnectIdle
    /\ BindIdle
    /\ pc = "strmap"
    /\ members = <<>>
    /\ stride \in Strides
    /\ sub = <<>>
    /\ subPrefix = <<>>
    /\ queried = FALSE

\* lines 50-51: strmap_add(&map, str[i], ..) for the next key
StrmapAdd ==
    /\ pc = "strmap"
    /\ Added < NUM
    /\ members' = InsertSorted(members, Format8((Added * stride) % NUM))
    /\ sub' = <<>>
    /\ subPrefix' = <<>>
    /\ queried' = FALSE
    /\ UNCHANGED <<netState, stride>>

\* lines 82-83: strmap_add(&map, empty, empty)
StrmapAddEmpty ==
    /\ pc = "strmap"
    /\ \A k \in 1..Len(members) : members[k] # <<>>
    /\ members' = InsertSorted(members, <<>>)
    /\ sub' = <<>>
    /\ subPrefix' = <<>>
    /\ queried' = FALSE
    /\ UNCHANGED <<netState, stride>>

\* lines 45-87: sub = strmap_prefix(&map, prefix); strmap_iterate(sub, ..)
StrmapPrefix ==
    /\ pc = "strmap"
    /\ \E prefix \in TestPrefixes :
          /\ sub' = PrefixOf(members, prefix)
          /\ subPrefix' = prefix
    /\ queried' = TRUE
    /\ UNCHANGED <<netState, members, stride>>

NextStrmap ==
    \/ StrmapAdd
    \/ StrmapAddEmpty
    \/ StrmapPrefix

SpecStrmap == InitStrmap /\ [][NextStrmap]_vars

-----------------------------------------------------------------------------
(* Vocabulary of the properties of net_bind *)

BindReturned == pc = "bind_done"

FactoryCalls == 1..Len(factoryLog)

\* the calls of make_listen_fd that returned a descriptor, in order
Produced == SelectSeq(factoryLog, LAMBDA r : r.ret >= 0)

\* the error of the step of make_listen_fd that failed
OriginatingError(step) ==
    CASE step = "socket" -> "EMFILE"
      [] step = "bind" -> "EADDRINUSE"
      [] step = "listen" -> "EOPNOTSUPP"

\* the socket of the latest call of make_listen_fd is closed (or was not made)
LatestSocketClosed ==
    \/ factoryLog[Len(factoryLog)].sock = -1
    \/ factoryLog[Len(factoryLog)].sock \notin openFds

(* C11: net_bind returns the number of families whose listening socket was *)
(* created, and -1 only when that number is zero; with one family failing  *)
(* it returns 1 and the surviving descriptor stays open.                   *)
C11_BindReturnsCount ==
    BindReturned =>
        /\ ret = IF Len(Produced) = 0 THEN -1 ELSE Len(Produced)
        /\ \A k \in 1..Len(Produced) : Produced[k].ret \in openFds

\* the IPv6 socket is created, the IPv4 attempt fails, net_bind returns 1
C11_Witness ==
    /\ BindReturned
    /\ Len(factoryLog) = MAX_PROTOS
    /\ factoryLog[1].ret >= 0
    /\ factoryLog[MAX_PROTOS].ret = -1
    /\ ret = 1
    /\ factoryLog[1].ret \in openFds

(* C12: net_bind considers at most one candidate per family and ignores a  *)
(* later candidate of a family already seen: the candidate passed to       *)
(* make_listen_fd is the first entry of its family, not the second.        *)
C12_BindUsesFirstOfFamily ==
    \A k \in FactoryCalls : IsFirstOfFamily(factoryLog[k].cand)

(* C13, as stated: in make_listen_fd a failure of any step (socket,        *)
(* enabling address reuse, bind, listen) makes it return failure with the  *)
(* socket closed and the originating errno preserved; it never returns a   *)
(* descriptor after a step failed and leaves no socket open on failure.    *)
C13_AnyStepFailureFails ==
    \A k \in FactoryCalls :
        LET r == factoryLog[k]
        IN  /\ (r.failed # "none" \/ (r.sock # -1 /\ ~r.reuseOk)) =>
                  r.ret = -1
            /\ r.failed # "none" => r.err = OriginatingError(r.failed)
            /\ (k = Len(factoryLog) /\ r.ret = -1) =>
                  (LatestSocketClosed /\ errno = r.err)

(* C13, amended: a failure of socket creation, bind or listen makes        *)
(* make_listen_fd return failure with the socket closed and the            *)
(* originating errno preserved across the close; it returns a descriptor   *)
(* exactly when none of these three failed, and leaves no socket open on   *)
(* failure.  A failure to enable address reuse is ignored.                 *)
C13_CheckedStepFailureFails ==
    \A k \in FactoryCalls :
        LET r == factoryLog[k]
        IN  /\ (r.failed # "none") <=> (r.ret = -1)
            /\ r.failed # "none" => r.err = OriginatingError(r.failed)
            /\ (k = Len(factoryLog) /\ r.ret = -1) =>
                  (LatestSocketClosed /\ errno = r.err)

\* listen failed on a bound socket: it is closed and errno is listen's error
C13_Witness ==
    /\ factoryLog # <<>>
    /\ factoryLog[Len(factoryLog)].failed = "listen"
    /\ factoryLog[Len(factoryLog)].sock >= FirstFreeFd
    /\ LatestSocketClosed
    /\ errno = "EOPNOTSUPP"

(* C15: net_bind attempts the IPv6 candidate before the IPv4 candidate and *)
(* fills fds compactly in that order: on return of n, fds[0..n-1] are the  *)
(* descriptors created, IPv6 before IPv4, and the IPv4 descriptor is at    *)
(* fds[0] when the IPv6 attempt failed.                                    *)
C15_BindOrderAndCompactFds ==
    /\ \A a, b \in FactoryCalls :
          a < b => /\ cands[factoryLog[a].cand] = "AF_INET6"
                   /\ cands[factoryLog[b].cand] = "AF_INET"
    /\ (BindReturned /\ ret >= 1) =>
          /\ ret = Len(Produced)
          /\ \A j \in 0..(Len(Produced) - 1) :
                j \in fdsWritten /\ fds[j] = Produced[j + 1].ret

\* the IPv6 attempt failed and the IPv4 descriptor is at fds[0]
C15_Witness ==
    /\ BindReturned
    /\ Len(factoryLog) = MAX_PROTOS
    /\ factoryLog[1].ret = -1
    /\ ret = 1
    /\ fds[0] = factoryLog[MAX_PROTOS].ret

(* C16: make_listen_fd puts the socket into the listening state exactly    *)
(* when the socket type is stream or sequenced-packet; a datagram socket   *)
(* is returned bound, and listen is never called on it.                    *)
C16_ListenOnlyConnectionOriented ==
    \A k \in FactoryCalls :
        LET r == factoryLog[k]
            type == socktypes[r.cand]
        IN  /\ r.listenCalled => type \in {"SOCK_STREAM", "SOCK_SEQPACKET"}
            /\ r.ret >= 0 =>
                  /\ r.bound
                  /\ r.listening <=>
                        type \in {"SOCK_STREAM", "SOCK_SEQPACKET"}

\* a datagram descriptor returned without listen, next to a listening one
C16_Witness ==
    /\ BindReturned
    /\ ret = MAX_PROTOS
    /\ socktypes[factoryLog[1].cand] = "SOCK_DGRAM"
    /\ ~factoryLog[1].listenCalled
    /\ factoryLog[1].bound
    /\ socktypes[factoryLog[MAX_PROTOS].cand] = "SOCK_SEQPACKET"
    /\ factoryLog[MAX_PROTOS].listening

-----------------------------------------------------------------------------
(* Both functions under the scheduling of a sequential program: a call     *)
(* that can take a step takes it, and every system call returns.           *)
NextBoth == Next \/ NextBind

SpecBoth ==
    /\ Init \/ InitBind
    /\ [][NextBoth]_vars
    /\ WF_vars(NextBoth)

Terminated == pc \in {"done", "crashed", "bind_done"}

\* the sockets seen by the current pass of a loop
Visited == {scanLog[k] : k \in 1..Len(scanLog)}

SizeofAddr(fam) ==
    IF fam = "AF_INET6" THEN SizeofSockaddrIn6 ELSE SizeofSockaddrIn

\* both sockets reported an event in the wakeup that gave the winner, and
\* both connects had succeeded
TieWon ==
    /\ winner # -1
    /\ ~syncWin
    /\ Cardinality(readySet) = MAX_PROTOS
    /\ fate["AF_INET"] = "OK" /\ fate["AF_INET6"] = "OK"

\* IPv6 is created and connected before IPv4
V6BeforeV4 ==
    /\ \A a, b \in 1..Len(created) :
          a < b => /\ cands[created[a].cand] = "AF_INET6"
                   /\ cands[created[b].cand] = "AF_INET"
    /\ \A a, b \in 1..Len(connectLog) :
          a < b => /\ cands[connectLog[a]] = "AF_INET6"
                   /\ cands[connectLog[b]] = "AF_INET"

(* C17, as stated: when both sockets are created, the IPv6 socket is       *)
(* created first and its connect is started first, whatever the order of   *)
(* the list; and when both report success in the same poll wakeup the      *)
(* IPv6 socket is the one returned.                                        *)
C17_V6FirstAndReturnedOnTie ==
    /\ V6BeforeV4
    /\ TieWon =>
          /\ winner = SocketOfFamily("AF_INET6")
          /\ Returned => ret = SocketOfFamily("AF_INET6")

(* C17, amended: as stated, but on a tie the IPv6 socket is the one chosen *)
(* as winner and is returned unless restoring blocking mode fails, in      *)
(* which case net_connect returns -1.                                      *)
C17_V6FirstAndWinnerOnTie ==
    /\ V6BeforeV4
    /\ TieWon =>
          /\ winner = SocketOfFamily("AF_INET6")
          /\ Returned =>
                IF "restore" \in faults
                THEN ret = -1
                ELSE ret = SocketOfFamily("AF_INET6")

\* IPv4 precedes IPv6 in the list, both sockets are ready in one wakeup,
\* and the IPv6 socket is returned
C17_Witness ==
    /\ Returned
    /\ TieWon
    /\ ipv4 < ipv6
    /\ connectLog = <<ipv6, ipv4>>
    /\ ret = SocketOfFamily("AF_INET6")

(* C18: dropping a candidate during a scan keeps the table consistent:     *)
(* the remaining entries keep descriptor, candidate, address length and    *)
(* reported events together, the count goes down by one per drop, and the  *)
(* scan visits every remaining candidate exactly once, in the connect loop *)
(* and in the readiness loop.                                              *)
C18_DropKeepsScanConsistent ==
    /\ \A j \in {k \in Slots : k < num} :
          /\ pfd[j].fd \in CreatedFds \ dropped
          /\ addr[j] = created[CandOfFd(pfd[j].fd)].cand
          /\ slen[j] = SizeofAddr(FamilyOfFd(pfd[j].fd))
          /\ pc = "events" => (pfd[j].revents # 0 <=> pfd[j].fd \in readySet)
    /\ \A j, k \in {m \in Slots : m < num} : j # k => pfd[j].fd # pfd[k].fd
    /\ num = Len(created) - Cardinality(dropped)
    /\ \A a, b \in 1..Len(scanLog) : a # b => scanLog[a] # scanLog[b]
    /\ pc = "poll" => PendingFds \subseteq Visited
    /\ pc # "crashed"

(* C19: every read or write of the attempt arrays uses an index in 0..1,   *)
(* and every entry whose descriptor is read to connect, to query status,   *)
(* to restore blocking mode or to return is live: its index is below num.  *)
C19_IndicesInRangeAndLive ==
    /\ ~oob
    /\ ~staleRead
    /\ pc \in {"sock6", "sock4"} => num \in Slots
    /\ (pc \in {"connect", "events"} /\ i < num) => i \in Slots

(* C20: net_connect terminates when every poll returns: each wakeup gives  *)
(* a winner, aborts, or removes a pending candidate, so poll is entered at *)
(* most as many times as there are pending candidates; net_bind            *)
(* terminates without any wait.                                            *)
C20_Terminates ==
    /\ <>Terminated
    /\ [](pollCalls <= Cardinality(inProgress))
    /\ []((pc = "poll" /\ faults \cap {"poll"} = {}) =>
             num + pollCalls <= Cardinality(inProgress))
    /\ [](factoryLog # <<>> => pollCalls = 0)

\* the wait was entered twice with two candidates pending
C20_Witness ==
    /\ Returned
    /\ Cardinality(inProgress) = MAX_PROTOS
    /\ pollCalls = MAX_PROTOS

-----------------------------------------------------------------------------
(* Vocabulary of the properties of the string map *)

\* key m starts with prefix p
StartsWith(m, p) ==
    /\ Len(p) <= Len(m)
    /\ \A k \in 1..Len(p) : m[k] = p[k]

\* a comes before b in ascending key order
KeyBefore(a, b) ==
    \/ Len(a) < Len(b) /\ StartsWith(b, a)
    \/ \E k \in 1..Len(a) :
          /\ k <= Len(b)
          /\ \A m \in 1..(k - 1) : a[m] = b[m]
          /\ a[k] < b[k]

\* atoi(key) for a key of digits
Atoi(key) ==
    LET RECURSIVE val(_)
        val(n) == IF n = 0 THEN 0 ELSE 10 * val(n - 1) + (key[n] - Digit0)
    IN  val(Len(key))

\* the map holds exactly the test's keys 00000000 .. 00000199
AllTestKeys == Len(members) = NUM /\ Added = NUM

\* the prefix of length n of the key 00000000
ZeroPrefix(n) == [k \in 1..n |-> Digit0]

\* in_order, lines 9-16: the k-th member visited is the number k - 1
InNumericOrder == \A k \in 1..Len(sub) : Atoi(sub[k]) = k - 1

(* C14: strmap_prefix(map, p) yields a sub-map whose iteration visits      *)
(* exactly the members whose key starts with p, each once and in ascending *)
(* key order: any prefix of an empty map is empty, a prefix no key starts  *)
(* with gives an empty sub-map, the empty prefix or one common to all keys *)
(* gives the whole map, and with keys 00000000..00000199 the prefixes of   *)
(* length 8, 7 and 6 of 00000000 give 1, 10 and 100 members in numeric     *)
(* order.                                                                  *)
C14_PrefixVisitsMatchingInOrder ==
    queried =>
        /\ {sub[k] : k \in 1..Len(sub)}
              = {members[k] : k \in {j \in 1..Len(members) :
                                       StartsWith(members[j], subPrefix)}}
        /\ \A k \in 1..(Len(sub) - 1) : KeyBefore(sub[k], sub[k + 1])
        /\ members = <<>> => sub = <<>>
        /\ subPrefix = <<CharA>> => sub = <<>>
        /\ subPrefix = <<>> => sub = members
        /\ (subPrefix = <<Digit0>> /\ Added = Len(members)) => sub = members
        /\ (AllTestKeys /\ subPrefix = ZeroPrefix(KeyWidth)) =>
              (Len(sub) = 1 /\ InNumericOrder)
        /\ (AllTestKeys /\ subPrefix = ZeroPrefix(KeyWidth - 1)) =>
              (Len(sub) = 10 /\ InNumericOrder)
        /\ (AllTestKeys /\ subPrefix = ZeroPrefix(KeyWidth - 2)) =>
              (Len(sub) = 100 /\ InNumericOrder)

\* the first hundred of the two hundred keys, added in interleaved order
C14_Witness ==
    /\ queried
    /\ AllTestKeys
    /\ stride = 3
    /\ subPrefix = ZeroPrefix(KeyWidth - 2)
    /\ Len(sub) = 100

=============================================================================
